---- MODULE Spec2Model ----
(***************************************************************************)
(* Model of PhantomWalletAdapter                                           *)
(* (src/packages/wallets/phantom/src/adapter.ts): the adapter's fields,    *)
(* the injected extension object, the page URL, localStorage, and one      *)
(* action per public operation, callback or continuation after an await.   *)
(*                                                                         *)
(* Conventions.                                                            *)
(*  - A JavaScript string is a sequence of one-character strings.          *)
(*  - An optional value (string | null) is a sequence of length 0 or 1.    *)
(*  - A Uint8Array is a sequence of numbers in 0..255.                     *)
(*  - tweetnacl and bs58 are libraries outside the repository; they are    *)
(*    modelled by what they compute: key agreement is component-wise       *)
(*    modular exponentiation (commutative, as X25519 is), a box is a       *)
(*    record that opens only under the key and nonce that sealed it and    *)
(*    only while intact, a base-58 string is either well formed (it        *)
(*    decodes to the bytes it encodes) or not (decoding throws).           *)
(***************************************************************************)
EXTENDS Integers, Sequences, FiniteSets, TLC

(***************************************************************************)
(* Bounds of the model.                                                    *)
(***************************************************************************)
\* key pairs nacl.box.keyPair() can hand out before the model stops
\* starting new request phases
MaxKeyPairs == 2
\* connect() calls that may be suspended at `await wallet.connect()`
MaxPending == 2

(***************************************************************************)
(* Strings and byte arrays.                                                *)
(***************************************************************************)
DigitChars == <<"0", "1", "2", "3", "4", "5", "6", "7", "8", "9">>

RECURSIVE NumberToString(_)
NumberToString(n) ==
    IF n < 10 THEN <<DigitChars[n + 1]>>
    ELSE NumberToString(n \div 10) \o <<DigitChars[(n % 10) + 1]>>

\* Uint8Array.prototype.toString(): the elements in decimal, joined by ","
RECURSIVE Uint8ToString(_)
Uint8ToString(bytes) ==
    IF Len(bytes) = 0 THEN <<>>
    ELSE IF Len(bytes) = 1 THEN NumberToString(bytes[1])
    ELSE NumberToString(bytes[1]) \o <<",">> \o Uint8ToString(Tail(bytes))

\* String.prototype.split(','): always at least one piece
RECURSIVE SplitComma(_)
SplitComma(s) ==
    IF \A i \in 1..Len(s) : s[i] # ","
    THEN <<s>>
    ELSE LET i == CHOOSE j \in 1..Len(s) :
                      s[j] = "," /\ \A k \in 1..(j - 1) : s[k] # ","
         IN  <<SubSeq(s, 1, i - 1)>> \o SplitComma(SubSeq(s, i + 1, Len(s)))

DigitValue(c) == (CHOOSE i \in 1..10 : DigitChars[i] = c) - 1

IsDigits(s) == \A i \in 1..Len(s) : \E d \in 1..10 : DigitChars[d] = s[i]

RECURSIVE DigitsValue(_)
DigitsValue(s) ==
    IF Len(s) = 0 THEN 0
    ELSE 10 * DigitsValue(SubSeq(s, 1, Len(s) - 1)) + DigitValue(s[Len(s)])

\* Number(piece) stored into a Uint8Array: "" is 0, a non-number is NaN and
\* NaN is stored as 0, any other value is taken modulo 256
ToUint8(piece) == IF IsDigits(piece) THEN DigitsValue(piece) % 256 ELSE 0

Uint8FromString(s) ==
    LET pieces == SplitComma(s)
    IN  [i \in 1..Len(pieces) |-> ToUint8(pieces[i])]

(***************************************************************************)
(* tweetnacl.                                                              *)
(***************************************************************************)
\* byte length of a box key in the model (32 in tweetnacl)
BoxKeyLength == 2

RECURSIVE PowMod(_, _)
PowMod(b, e) == IF e = 0 THEN 1 ELSE (b * PowMod(b, e - 1)) % 251

\* scalar multiplication: crypto_scalarmult(n, p)
ScalarMult(n, p) == [i \in 1..Len(n) |-> PowMod(p[i], n[i])]

BasePoint == [i \in 1..BoxKeyLength |-> 6]

\* the k-th secret key the random generator hands out
SecretKeyOf(k) == [i \in 1..BoxKeyLength |-> k + 2 * i - 1]

\* nacl.box.keyPair.fromSecretKey
KeyPairOf(secretKey) ==
    [publicKey |-> ScalarMult(secretKey, BasePoint), secretKey |-> secretKey]

\* nacl.box.before checks both lengths and throws on a bad one
BoxBeforeThrows(publicKey, secretKey) ==
    Len(publicKey) # BoxKeyLength \/ Len(secretKey) # BoxKeyLength

\* nacl.box.before(publicKey, secretKey)
BoxBefore(publicKey, secretKey) == ScalarMult(secretKey, publicKey)

\* nacl.box.after(msg, nonce, key): an authenticated ciphertext
BoxAfter(msg, nonce, key) ==
    [key |-> key, nonce |-> nonce, msg |-> msg, intact |-> TRUE]

\* one byte of a ciphertext changed
FlipByte(box) == [box EXCEPT !.intact = FALSE]

\* nacl.box.open.after checks the nonce's length and throws on a bad one
BoxOpenAfterThrows(nonce) == Len(nonce) # 1

\* nacl.box.open.after(box, nonce, key): <<msg>>, or <<>> for null
BoxOpenAfter(box, nonce, key) ==
    IF box.intact /\ box.key = key /\ box.nonce = nonce
    THEN <<box.msg>>
    ELSE <<>>

(***************************************************************************)
(* bs58.                                                                   *)
(***************************************************************************)
\* bs58.encode(bytes)
Bs58Encode(bytes) == [wellFormed |-> TRUE, decoded |-> bytes]

\* bs58.decode(string) throws on a character outside the alphabet
Bs58DecodeThrows(string) == ~string.wellFormed

Bs58Decode(string) == string.decoded

(***************************************************************************)
(* Errors and events.                                                      *)
(***************************************************************************)
Err(type, cause) == [type |-> type, cause |-> cause]

NoError == Err("none", "none")

\* the classes of @solana/wallet-adapter-base the adapter imports
WalletErrorTypes ==
    {"WalletError", "WalletNotReadyError", "WalletConnectionError",
     "WalletAccountError", "WalletPublicKeyError", "WalletDisconnectedError",
     "WalletDisconnectionError", "WalletNotConnectedError",
     "WalletSendTransactionError", "WalletSignTransactionError",
     "WalletSignMessageError"}

\* error instanceof WalletError
IsWalletError(error) == error.type \in WalletErrorTypes

\* an error thrown by code that is not the adapter's
ForeignError == Err("Error", "none")

\* new WalletXError(error?.message, error)
Wrap(type, error) == Err(type, error.type)

Event(name, error, arg) == [name |-> name, error |-> error, arg |-> arg]

ErrorEvent(error) == Event("error", error, "")

ConnectEvent(key) == Event("connect", NoError, key)

DisconnectEvent == Event("disconnect", NoError, "")

ReadyStateChangeEvent(state) == Event("readyStateChange", NoError, state)

(***************************************************************************)
(* Public keys of accounts (@solana/web3.js PublicKey).                    *)
(***************************************************************************)
Addresses == {"addrA", "addrB"}

\* what a wallet may hand over as a key: an address, or bytes that are none
KeyValues == Addresses \cup {"malformed"}

\* new PublicKey(value) throws on a value that is no key
PublicKeyThrows(value) == value \notin Addresses

(***************************************************************************)
(* The page URL and what the wallet app can send back.                     *)
(***************************************************************************)
\* window.location: the query parameters the adapter reads or strips, and
\* one parameter of the application's own
Url(pk, nonce, data, errorCode, errorMessage) ==
    [phantom_encryption_public_key |-> pk, nonce |-> nonce, data |-> data,
     errorCode |-> errorCode, errorMessage |-> errorMessage,
     other |-> <<"1">>]

\* the application's URL before any round trip
PlainUrl == Url(<<>>, <<>>, <<>>, <<>>, <<>>)

\* the wallet app's rejection of a request
ErrorUrl == Url(<<>>, <<>>, <<>>, <<"4001">>, <<"User rejected">>)

\* the key pair of the wallet app
WalletKeyPair == KeyPairOf([i \in 1..BoxKeyLength |-> 7 + 2 * i])

Nonces == {<<24>>, <<25>>}

Tok1 == <<"t", "o", "k", "1">>

Tok2 == <<"t", "o", "k", "2">>

\* the text of the decrypted payload; json is whether JSON.parse accepts it
ConnectData(public_key, session) ==
    [json |-> TRUE, public_key |-> public_key, session |-> session]

NotJson == [json |-> FALSE, public_key |-> "", session |-> <<>>]

Payloads ==
    {ConnectData("addrA", Tok1), ConnectData("addrB", Tok2),
     ConnectData("malformed", Tok1), NotJson}

\* how a response may differ from the well-formed one
Variants ==
    {"sound", "flipped", "otherNonce", "shortNonce", "badPk", "shortPk",
     "noData"}

\* the wallet app's answer to the request that carried dapp key pair k:
\* payload sealed under agree(wallet secret key, dapp public key)
ResponseUrl(k, nonce, payload, variant) ==
    LET dappPublicKey == KeyPairOf(SecretKeyOf(k)).publicKey
        shared == BoxBefore(dappPublicKey, WalletKeyPair.secretKey)
        sealed == BoxAfter(payload, nonce, shared)
        pk == CASE variant = "badPk" ->
                     [wellFormed |-> FALSE, decoded |-> <<>>]
                [] variant = "shortPk" ->
                     Bs58Encode(Tail(WalletKeyPair.publicKey))
                [] OTHER -> Bs58Encode(WalletKeyPair.publicKey)
        sentNonce == CASE variant = "otherNonce" ->
                            CHOOSE n \in Nonces : n # nonce
                       [] variant = "shortNonce" -> <<>>
                       [] OTHER -> nonce
        data == IF variant = "flipped" THEN FlipByte(sealed) ELSE sealed
    IN  Url(<<pk>>, <<Bs58Encode(sentNonce)>>,
            IF variant = "noData" THEN <<>> ELSE <<Bs58Encode(data)>>,
            <<>>, <<>>)

\* every URL a page load can carry; a response that is not sound fails
\* before its payload is read, so one payload stands for all there
InboundUrls ==
    {PlainUrl, ErrorUrl}
    \cup {ResponseUrl(k, <<24>>, p, "sound") :
             k \in 1..MaxKeyPairs, p \in Payloads}
    \cup {ResponseUrl(k, <<24>>, ConnectData("addrA", Tok1), v) :
             k \in 1..MaxKeyPairs, v \in Variants}

(***************************************************************************)
(* The host environment.                                                   *)
(***************************************************************************)
\* window: "undeclared" (no such global, as under Node), "undefined" (a
\* global holding undefined), "object"; document: whether typeof document
\* is not 'undefined'; extension: whether window.phantom.solana.isPhantom
Hosts ==
    {[window |-> w, document |-> FALSE, extension |-> FALSE] :
        w \in {"undeclared", "undefined"}}
    \cup
    {[window |-> "object", document |-> d, extension |-> e] :
        d \in BOOLEAN, e \in BOOLEAN}

\* localStorage before the first request
EmptyStorage ==
    [publicKey |-> <<>>, secretKey |-> <<>>, sharedSecret |-> <<>>,
     session |-> <<>>]

\* the injected wallet object before any connection
IdleExtension ==
    [isConnected |-> FALSE, publicKey |-> <<>>, onDisconnect |-> 0,
     onAccountChanged |-> 0]

VARIABLES
    host,              \* the globals of the environment
    useDeepLink,       \* the constructor's useDeepLink (see Init)
    url,               \* window.location of the loaded page
    storage,           \* localStorage, the four PHANTOM_DEEP_LINK_* keys
    readyState,        \* _readyState
    connecting,        \* _connecting
    wallet,            \* _wallet is not null
    publicKey,         \* _publicKey, <<>> for null
    extension,         \* the injected wallet object
    pendingConnect,    \* connect() calls suspended at wallet.connect()
    pendingDisconnect, \* disconnect() calls suspended at wallet.disconnect()
    keyPairs,          \* key pairs generated so far
    authenticated,     \* history: the shared secrets that opened a response
    last               \* the step just taken: what it emitted and returned

vars ==
    <<host, useDeepLink, url, storage, readyState, connecting, wallet,
      publicKey, extension, pendingConnect, pendingDisconnect, keyPairs,
      authenticated, last>>

\* the record of one step of one operation
Step(op, emitted, result, error, value, href) ==
    [op |-> op, emitted |-> emitted, result |-> result, error |-> error,
     value |-> value, href |-> href]

Resolved(op, emitted) == Step(op, emitted, "resolved", NoError, "", <<>>)

Rejected(op, emitted, error) == Step(op, emitted, "rejected", error, "", <<>>)

Suspended(op, emitted) == Step(op, emitted, "suspended", NoError, "", <<>>)

(***************************************************************************)
(* Construction.                                                           *)
(***************************************************************************)
\* the field initialiser of _readyState
InitialReadyState(h) ==
    IF h.window # "object" \/ ~h.document THEN "Unsupported"
    ELSE "NotDetected"

\* the constructor as it would be if it set Loadable without emitting
\* readyStateChange
ConstructorUnannounced(h, deepLink) ==
    IF InitialReadyState(h) # "Unsupported" /\ deepLink
    THEN [readyState |-> "Loadable", emitted |-> <<>>]
    ELSE [readyState |-> InitialReadyState(h), emitted |-> <<>>]

\* the constructor: the readiness it leaves and the events it emits
Constructor(h, deepLink) ==
    IF InitialReadyState(h) # "Unsupported" /\ deepLink
    THEN [readyState |-> "Loadable",
          emitted |-> <<ReadyStateChangeEvent("Loadable")>>]
    ELSE [readyState |-> InitialReadyState(h), emitted |-> <<>>]

\* The constructor's useDeepLink is the literal true in this revision, with
\* a note that it is to depend on the platform; the branch it switches off
\* (detection of the extension, readiness Installed) is the only way into
\* the extension code of connect, disconnect, the sign operations and the
\* two notification handlers.  Both values are admitted, so that this code
\* is part of the model; the deep-link behaviour is that of the value true.
Init ==
    /\ host \in Hosts
    /\ useDeepLink \in BOOLEAN
    /\ url = PlainUrl
    /\ storage = EmptyStorage
    /\ readyState = Constructor(host, useDeepLink).readyState
    /\ connecting = FALSE
    /\ wallet = FALSE
    /\ publicKey = <<>>
    /\ extension = IdleExtension
    /\ pendingConnect = 0
    /\ pendingDisconnect = 0
    /\ keyPairs = 0
    /\ authenticated = {}
    /\ last = Resolved("constructor", Constructor(host, useDeepLink).emitted)

\* the browser loads the application at URL u (the wallet app's redirect,
\* or the user coming back): a new document, a new adapter, the same
\* localStorage; calls suspended in the old document are gone with it
PageLoad(u) ==
    /\ host.window = "object"
    /\ url' = u
    /\ readyState' = Constructor(host, useDeepLink).readyState
    /\ connecting' = FALSE
    /\ wallet' = FALSE
    /\ publicKey' = <<>>
    /\ extension' = IdleExtension
    /\ pendingConnect' = 0
    /\ pendingDisconnect' = 0
    /\ last' = Resolved("constructor", Constructor(host, useDeepLink).emitted)
    /\ UNCHANGED <<host, useDeepLink, storage, keyPairs, authenticated>>

\* the callback of scopePollingDetectionStrategy finds the extension
DetectInstalled ==
    /\ readyState = "NotDetected"
    /\ host.extension
    /\ readyState' = "Installed"
    /\ last' = Resolved("detect", <<ReadyStateChangeEvent("Installed")>>)
    /\ UNCHANGED <<host, useDeepLink, url, storage, connecting, wallet,
                   publicKey, extension, pendingConnect, pendingDisconnect,
                   keyPairs, authenticated>>

(***************************************************************************)
(* localStorage and URLs.                                                  *)
(***************************************************************************)
\* !valueString: null or the empty string
NotStored(value) == value = <<>> \/ value = <<<<>>>>

\* the error localStorageGetUint8 emits and throws for a missing key
KeyNotStored(key) == Err("WalletError", key)

\* localStorageGetUint8 as it would be without the split: every character of
\* the stored string taken for one element
LocalStorageGetUint8Unsplit(value) ==
    [i \in 1..Len(value[1]) |-> ToUint8(<<value[1][i]>>)]

\* localStorageGetUint8 on a stored value
LocalStorageGetUint8(value) == Uint8FromString(value[1])

\* makeRedirectUrl: the page URL without the five protocol parameters
MakeRedirectUrl(u) ==
    [u EXCEPT !.phantom_encryption_public_key = <<>>, !.nonce = <<>>,
              !.data = <<>>, !.errorCode = <<>>, !.errorMessage = <<>>]

\* makeDeepLinkUrl: https://phantom.app/ul/v1/<path>?<params>
MakeDeepLinkUrl(path, params) == [path |-> path, params |-> params]

\* the parameters of the connect link
ConnectParams(appUrl, dappPublicKey) ==
    [app_url |-> <<appUrl>>,
     dapp_encryption_public_key |-> Bs58Encode(dappPublicKey),
     redirect_link |-> <<appUrl>>, cluster |-> "devnet",
     nonce |-> <<>>, payload |-> <<>>]

\* the parameters of the signAndSendTransaction link
SendParams(dappPublicKey, nonce, redirect, payload) ==
    [app_url |-> <<>>,
     dapp_encryption_public_key |-> Bs58Encode(dappPublicKey),
     redirect_link |-> <<redirect>>, cluster |-> "",
     nonce |-> <<Bs58Encode(nonce)>>, payload |-> <<Bs58Encode(payload)>>]

(***************************************************************************)
(* connect().                                                              *)
(***************************************************************************)
\* get connected: !!this._wallet?.isConnected
Connected == wallet /\ extension.isConnected

\* what one run of a piece of the adapter's code leaves behind
Outcome(store, key, emitted, thrown, opened, href) ==
    [storage |-> store, publicKey |-> key, emitted |-> emitted,
     thrown |-> thrown, opened |-> opened, href |-> href]

\* connectUsingDeepLink as it would be if it navigated with the public key
\* in the URL and only the public key in storage
ConnectUsingDeepLinkUnsaved(store, u, keyPair) ==
    LET stored == [store EXCEPT
                     !.publicKey = <<Uint8ToString(keyPair.publicKey)>>]
        appUrl == MakeRedirectUrl(u)
        connectUrl == MakeDeepLinkUrl("connect",
                                      ConnectParams(appUrl, keyPair.publicKey))
    IN  Outcome(stored, publicKey, <<>>, NoError, {}, <<connectUrl>>)

\* connectUsingDeepLink with the key pair the generator hands out
ConnectUsingDeepLink(store, u, keyPair) ==
    LET stored == [store EXCEPT
                     !.publicKey = <<Uint8ToString(keyPair.publicKey)>>,
                     !.secretKey = <<Uint8ToString(keyPair.secretKey)>>]
        appUrl == MakeRedirectUrl(u)
        connectUrl == MakeDeepLinkUrl("connect",
                                      ConnectParams(appUrl, keyPair.publicKey))
    IN  Outcome(stored, publicKey, <<>>, NoError, {}, <<connectUrl>>)

\* handleConnectionDeepLinkParams, from the decrypted payload on
AdoptConnectData(store, opened, shared) ==
    IF ~opened.json
    THEN Outcome(store, publicKey, <<>>, ForeignError, {shared}, <<>>)
    ELSE LET withSession == [store EXCEPT !.session = <<opened.session>>]
         IN  IF PublicKeyThrows(opened.public_key)
             THEN Outcome(withSession, publicKey, <<>>, ForeignError,
                          {shared}, <<>>)
             ELSE Outcome(withSession, <<opened.public_key>>,
                          <<ConnectEvent(opened.public_key)>>, NoError,
                          {shared}, <<>>)

\* handleConnectionDeepLinkParams as it would be if the payload were used
\* without the check of the decryption's result
OpenConnectDataUnchecked(store, phantomPublicKey, nonce, encryptedData, dappSecretKey) ==
    LET sharedSecret == BoxBefore(phantomPublicKey, dappSecretKey)
        stored == [store EXCEPT
                     !.sharedSecret = <<Uint8ToString(sharedSecret)>>]
    IN  IF Bs58DecodeThrows(encryptedData) \/ Bs58DecodeThrows(nonce)
        THEN Outcome(stored, publicKey, <<>>, ForeignError, {}, <<>>)
        ELSE IF BoxOpenAfterThrows(Bs58Decode(nonce))
        THEN Outcome(stored, publicKey, <<>>, ForeignError, {}, <<>>)
        ELSE AdoptConnectData(stored, Bs58Decode(encryptedData).msg,
                              sharedSecret)

\* handleConnectionDeepLinkParams, from the key agreement on
OpenConnectData(store, phantomPublicKey, nonce, encryptedData, dappSecretKey) ==
    LET sharedSecret == BoxBefore(phantomPublicKey, dappSecretKey)
        stored == [store EXCEPT
                     !.sharedSecret = <<Uint8ToString(sharedSecret)>>]
    IN  IF Bs58DecodeThrows(encryptedData) \/ Bs58DecodeThrows(nonce)
        THEN Outcome(stored, publicKey, <<>>, ForeignError, {}, <<>>)
        ELSE IF BoxOpenAfterThrows(Bs58Decode(nonce))
        THEN Outcome(stored, publicKey, <<>>, ForeignError, {}, <<>>)
        ELSE LET opened == BoxOpenAfter(Bs58Decode(encryptedData),
                                        Bs58Decode(nonce), sharedSecret)
                 error == Err("WalletConnectionError", "none")
             IN  IF opened = <<>>
                 THEN Outcome(stored, publicKey, <<ErrorEvent(error)>>,
                              error, {}, <<>>)
                 ELSE AdoptConnectData(stored, opened[1], sharedSecret)

\* handleConnectionDeepLinkParams as it would be if a missing request secret
\* key were replaced by a default one instead of being an error
HandleConnectionDeepLinkParamsDefaultKey(store, phantomEncryptionPublicKey, nonce, encryptedData) ==
    IF Bs58DecodeThrows(phantomEncryptionPublicKey)
    THEN Outcome(store, publicKey, <<>>, ForeignError, {}, <<>>)
    ELSE LET dappSecretKey == IF NotStored(store.secretKey) THEN SecretKeyOf(1)
                              ELSE LocalStorageGetUint8(store.secretKey)
         IN  IF BoxBeforeThrows(Bs58Decode(phantomEncryptionPublicKey),
                                dappSecretKey)
             THEN Outcome(store, publicKey, <<>>, ForeignError, {}, <<>>)
             ELSE OpenConnectData(store,
                                  Bs58Decode(phantomEncryptionPublicKey),
                                  nonce, encryptedData, dappSecretKey)

\* handleConnectionDeepLinkParams
HandleConnectionDeepLinkParams(store, phantomEncryptionPublicKey, nonce, encryptedData) ==
    IF NotStored(store.secretKey)
    THEN Outcome(store, publicKey,
                 <<ErrorEvent(KeyNotStored("PHANTOM_DEEP_LINK_SECRET_KEY"))>>,
                 KeyNotStored("PHANTOM_DEEP_LINK_SECRET_KEY"), {}, <<>>)
    ELSE IF Bs58DecodeThrows(phantomEncryptionPublicKey)
    THEN Outcome(store, publicKey, <<>>, ForeignError, {}, <<>>)
    ELSE IF BoxBeforeThrows(Bs58Decode(phantomEncryptionPublicKey),
                            LocalStorageGetUint8(store.secretKey))
    THEN Outcome(store, publicKey, <<>>, ForeignError, {}, <<>>)
    ELSE OpenConnectData(store, Bs58Decode(phantomEncryptionPublicKey), nonce,
                         encryptedData, LocalStorageGetUint8(store.secretKey))

\* phantomEncryptionPublicKey && nonce && data
HasResponseParams(u) ==
    /\ u.phantom_encryption_public_key # <<>>
    /\ u.nonce # <<>>
    /\ u.data # <<>>

\* the Loadable branch of connect()
ConnectLoadable(store, u, keyPair) ==
    IF HasResponseParams(u)
    THEN HandleConnectionDeepLinkParams(store,
             u.phantom_encryption_public_key[1], u.nonce[1], u.data[1])
    ELSE ConnectUsingDeepLink(store, u, keyPair)

\* what the Installed branch of connect() leaves, from the read of
\* wallet.publicKey on
Direct(ext, hasWallet, key, emitted, thrown) ==
    [extension |-> ext, wallet |-> hasWallet, publicKey |-> key,
     emitted |-> emitted, thrown |-> thrown]

ConnectDirect(ext) ==
    IF ext.publicKey = <<>>
    THEN Direct(ext, wallet, publicKey, <<>>, Err("WalletAccountError", "none"))
    ELSE IF PublicKeyThrows(ext.publicKey[1])
    THEN Direct(ext, wallet, publicKey, <<>>,
                Wrap("WalletPublicKeyError", ForeignError))
    ELSE Direct([ext EXCEPT !.onDisconnect = @ + 1,
                            !.onAccountChanged = @ + 1],
                TRUE, ext.publicKey, <<ConnectEvent(ext.publicKey[1])>>,
                NoError)

\* the catch and finally blocks of connect() after the Installed branch
SettleDirect(op, d) ==
    /\ extension' = d.extension
    /\ wallet' = d.wallet
    /\ publicKey' = d.publicKey
    /\ connecting' = FALSE
    /\ last' = IF d.thrown # NoError
               THEN Rejected(op, d.emitted \o <<ErrorEvent(d.thrown)>>,
                             d.thrown)
               ELSE Resolved(op, d.emitted)

\* the catch and finally blocks of connect() after the Loadable branch
SettleLoadable(o) ==
    /\ storage' = o.storage
    /\ publicKey' = o.publicKey
    /\ authenticated' = authenticated \cup o.opened
    /\ connecting' = FALSE
    /\ last' = IF o.thrown # NoError
               THEN Rejected("connect", o.emitted \o <<ErrorEvent(o.thrown)>>,
                             o.thrown)
               ELSE Step("connect", o.emitted, "resolved", NoError, "", o.href)

\* the entry guard of connect(): this.connected || this.connecting || !window.
\* Reading a global that was never declared throws a ReferenceError.
GuardThrows == ~Connected /\ ~connecting /\ host.window = "undeclared"

GuardReturns == Connected \/ connecting \/ host.window = "undefined"

\* a call of connect(), up to its first await or to its end
Connect ==
    IF GuardReturns
    THEN /\ connecting' = FALSE
         /\ last' = Resolved("connect", <<>>)
         /\ UNCHANGED <<host, useDeepLink, url, storage, readyState, wallet,
                        publicKey, extension, pendingConnect,
                        pendingDisconnect, keyPairs, authenticated>>
    ELSE IF GuardThrows
    THEN /\ connecting' = FALSE
         /\ last' = Rejected("connect",
                             <<ErrorEvent(Err("ReferenceError", "none"))>>,
                             Err("ReferenceError", "none"))
         /\ UNCHANGED <<host, useDeepLink, url, storage, readyState, wallet,
                        publicKey, extension, pendingConnect,
                        pendingDisconnect, keyPairs, authenticated>>
    ELSE IF readyState \notin {"Installed", "Loadable"}
    THEN /\ connecting' = FALSE
         /\ last' = Rejected("connect",
                             <<ErrorEvent(Err("WalletNotReadyError", "none"))>>,
                             Err("WalletNotReadyError", "none"))
         /\ UNCHANGED <<host, useDeepLink, url, storage, readyState, wallet,
                        publicKey, extension, pendingConnect,
                        pendingDisconnect, keyPairs, authenticated>>
    ELSE IF readyState = "Loadable"
    THEN /\ HasResponseParams(url) \/ keyPairs < MaxKeyPairs
         /\ SettleLoadable(ConnectLoadable(storage, url,
                               KeyPairOf(SecretKeyOf(keyPairs + 1))))
         /\ keyPairs' = IF HasResponseParams(url) THEN keyPairs
                        ELSE keyPairs + 1
         /\ UNCHANGED <<host, useDeepLink, url, readyState, wallet, extension,
                        pendingConnect, pendingDisconnect>>
    ELSE IF ~extension.isConnected
    THEN /\ pendingConnect < MaxPending
         /\ connecting' = TRUE
         /\ pendingConnect' = pendingConnect + 1
         /\ last' = Suspended("connect", <<>>)
         /\ UNCHANGED <<host, useDeepLink, url, storage, readyState, wallet,
                        publicKey, extension, pendingDisconnect, keyPairs,
                        authenticated>>
    ELSE /\ SettleDirect("connect", ConnectDirect(extension))
         /\ UNCHANGED <<host, useDeepLink, url, storage, readyState,
                        pendingConnect, pendingDisconnect, keyPairs,
                        authenticated>>

\* wallet.connect() settles and a suspended connect() runs to its end.
\* approved: the user approved and the extension now exposes key.
ConnectResume(approved, key) ==
    /\ pendingConnect > 0
    /\ pendingConnect' = pendingConnect - 1
    /\ IF approved
       THEN SettleDirect("connect.resume",
                ConnectDirect(IF extension.isConnected THEN extension
                              ELSE [extension EXCEPT !.isConnected = TRUE,
                                                     !.publicKey = key]))
       ELSE SettleDirect("connect.resume",
                Direct(extension, wallet, publicKey, <<>>,
                       Wrap("WalletConnectionError", ForeignError)))
    /\ UNCHANGED <<host, useDeepLink, url, storage, readyState,
                   pendingDisconnect, keyPairs, authenticated>>

(***************************************************************************)
(* disconnect() and the extension's notifications.                         *)
(***************************************************************************)
\* wallet.off('disconnect', ...); wallet.off('accountChanged', ...): the
\* emitter drops every registration of the handler
Off(ext) == [ext EXCEPT !.onDisconnect = 0, !.onAccountChanged = 0]

\* _disconnected, the handler of the extension's 'disconnect'
Disconnected(ext) ==
    IF wallet
    THEN Direct(Off(ext), FALSE, <<>>,
                <<ErrorEvent(Err("WalletDisconnectedError", "none")),
                  DisconnectEvent>>, NoError)
    ELSE Direct(ext, wallet, publicKey, <<>>, NoError)

\* _accountChanged as it would be without the comparison of the new key
\* with the current identity
AccountChangedUncompared(ext, newPublicKey) ==
    IF publicKey = <<>>
    THEN Direct(ext, wallet, publicKey, <<>>, NoError)
    ELSE IF PublicKeyThrows(newPublicKey)
    THEN Direct(ext, wallet, publicKey,
                <<ErrorEvent(Wrap("WalletPublicKeyError", ForeignError))>>,
                NoError)
    ELSE Direct(ext, wallet, <<newPublicKey>>,
                <<ConnectEvent(newPublicKey)>>, NoError)

\* _accountChanged, the handler of the extension's 'accountChanged'
AccountChanged(ext, newPublicKey) ==
    IF publicKey = <<>>
    THEN Direct(ext, wallet, publicKey, <<>>, NoError)
    ELSE IF PublicKeyThrows(newPublicKey)
    THEN Direct(ext, wallet, publicKey,
                <<ErrorEvent(Wrap("WalletPublicKeyError", ForeignError))>>,
                NoError)
    ELSE IF publicKey[1] = newPublicKey
    THEN Direct(ext, wallet, publicKey, <<>>, NoError)
    ELSE Direct(ext, wallet, <<newPublicKey>>,
                <<ConnectEvent(newPublicKey)>>, NoError)

\* a call of disconnect(), up to its await or to its end
Disconnect ==
    IF wallet
    THEN /\ pendingDisconnect < MaxPending
         /\ extension' = Off(extension)
         /\ wallet' = FALSE
         /\ publicKey' = <<>>
         /\ pendingDisconnect' = pendingDisconnect + 1
         /\ last' = Suspended("disconnect", <<>>)
         /\ UNCHANGED <<host, useDeepLink, url, storage, readyState,
                        connecting, pendingConnect, keyPairs, authenticated>>
    ELSE /\ last' = Resolved("disconnect", <<DisconnectEvent>>)
         /\ UNCHANGED <<host, useDeepLink, url, storage, readyState,
                        connecting, wallet, publicKey, extension,
                        pendingConnect, pendingDisconnect, keyPairs,
                        authenticated>>

\* the end of disconnect() as it would be if the failure of
\* wallet.disconnect() were thrown on after being emitted
DisconnectResumeRethrows(done) ==
    /\ pendingDisconnect > 0
    /\ pendingDisconnect' = pendingDisconnect - 1
    /\ IF done
       THEN /\ extension' = [extension EXCEPT !.isConnected = FALSE,
                                              !.publicKey = <<>>]
            /\ last' = Resolved("disconnect.resume", <<DisconnectEvent>>)
       ELSE /\ last' = Rejected("disconnect.resume",
                                <<ErrorEvent(Wrap("WalletDisconnectionError",
                                                  ForeignError))>>,
                                Wrap("WalletDisconnectionError", ForeignError))
            /\ UNCHANGED extension
    /\ UNCHANGED <<host, useDeepLink, url, storage, readyState, connecting,
                   wallet, publicKey, pendingConnect, keyPairs, authenticated>>

\* wallet.disconnect() settles and a suspended disconnect() runs to its end.
\* done: the extension dropped the connection, announced it with its own
\* 'disconnect' to whoever listens, and resolved; otherwise it rejected.
DisconnectResume(done) ==
    /\ pendingDisconnect > 0
    /\ pendingDisconnect' = pendingDisconnect - 1
    /\ LET dropped == [extension EXCEPT !.isConnected = FALSE,
                                        !.publicKey = <<>>]
           heard == IF extension.onDisconnect > 0 THEN Disconnected(dropped)
                    ELSE Direct(dropped, wallet, publicKey, <<>>, NoError)
       IN  IF done
           THEN /\ extension' = heard.extension
                /\ wallet' = heard.wallet
                /\ publicKey' = heard.publicKey
                /\ last' = Resolved("disconnect.resume",
                                    heard.emitted \o <<DisconnectEvent>>)
           ELSE /\ last' = Resolved("disconnect.resume",
                                    <<ErrorEvent(Wrap("WalletDisconnectionError",
                                                      ForeignError)),
                                      DisconnectEvent>>)
                /\ UNCHANGED <<extension, wallet, publicKey>>
    /\ UNCHANGED <<host, useDeepLink, url, storage, readyState, connecting,
                   pendingConnect, keyPairs, authenticated>>

\* the extension drops the connection on its own and emits 'disconnect'
ExtensionDisconnect ==
    /\ extension.isConnected
    /\ LET dropped == [extension EXCEPT !.isConnected = FALSE,
                                        !.publicKey = <<>>]
           heard == IF extension.onDisconnect > 0 THEN Disconnected(dropped)
                    ELSE Direct(dropped, wallet, publicKey, <<>>, NoError)
       IN  /\ extension' = heard.extension
           /\ wallet' = heard.wallet
           /\ publicKey' = heard.publicKey
           /\ last' = Resolved(IF extension.onDisconnect > 0
                               THEN "_disconnected" ELSE "extension",
                               heard.emitted)
    /\ UNCHANGED <<host, useDeepLink, url, storage, readyState, connecting,
                   pendingConnect, pendingDisconnect, keyPairs, authenticated>>

\* the user switches accounts in the extension, which emits 'accountChanged'
ExtensionAccountChanged(newPublicKey) ==
    /\ extension.isConnected
    /\ LET switched == [extension EXCEPT !.publicKey = <<newPublicKey>>]
           heard == IF extension.onAccountChanged > 0
                    THEN AccountChanged(switched, newPublicKey)
                    ELSE Direct(switched, wallet, publicKey, <<>>, NoError)
       IN  /\ extension' = heard.extension
           /\ publicKey' = heard.publicKey
           /\ last' = Resolved(IF extension.onAccountChanged > 0
                               THEN "_accountChanged" ELSE "extension",
                               heard.emitted)
    /\ UNCHANGED <<host, useDeepLink, url, storage, readyState, connecting,
                   wallet, pendingConnect, pendingDisconnect, keyPairs,
                   authenticated>>

(***************************************************************************)
(* sendTransaction and the sign operations.                                *)
(***************************************************************************)
\* BaseWalletAdapter.prepareTransaction: needs the identity as fee payer,
\* then fetches a block hash; fails is whether the fetch throws
PrepareTransaction(fails) ==
    IF publicKey = <<>> THEN Err("WalletNotConnectedError", "none")
    ELSE IF fails THEN ForeignError
    ELSE NoError

\* signAndPrepareTransaction: the error it throws, or NoError.
\* fails: the signers' sign (versioned) or the preparation (legacy) throws.
SignAndPrepareTransaction(transaction, fails) ==
    LET thrown == IF transaction = "versioned"
                  THEN IF fails THEN ForeignError ELSE NoError
                  ELSE PrepareTransaction(fails)
    IN  IF thrown = NoError \/ IsWalletError(thrown) THEN thrown
        ELSE Wrap("WalletSendTransactionError", thrown)

\* the plaintext sendTransactionUsingDeepLink seals
SendPayload(transaction, session) ==
    [transaction |-> Bs58Encode(transaction), session |-> session]

\* sendTransactionUsingDeepLink
SendTransactionUsingDeepLink(store, u, transaction, fails, nonce) ==
    IF SignAndPrepareTransaction(transaction, fails) # NoError
    THEN Outcome(store, publicKey, <<>>,
                 SignAndPrepareTransaction(transaction, fails), {}, <<>>)
    ELSE IF NotStored(store.publicKey)
    THEN Outcome(store, publicKey,
                 <<ErrorEvent(KeyNotStored("PHANTOM_DEEP_LINK_PUBLIC_KEY"))>>,
                 KeyNotStored("PHANTOM_DEEP_LINK_PUBLIC_KEY"), {}, <<>>)
    ELSE IF NotStored(store.sharedSecret)
    THEN Outcome(store, publicKey,
                 <<ErrorEvent(KeyNotStored("PHANTOM_DEEP_LINK_SHARED_SECRET"))>>,
                 KeyNotStored("PHANTOM_DEEP_LINK_SHARED_SECRET"), {}, <<>>)
    ELSE LET dappPublicKey == LocalStorageGetUint8(store.publicKey)
             sharedSecret == LocalStorageGetUint8(store.sharedSecret)
             encryptedPayload ==
                 BoxAfter(SendPayload(transaction, store.session), nonce,
                          sharedSecret)
         IN  Outcome(store, publicKey, <<>>, NoError, {},
                     <<MakeDeepLinkUrl("signAndSendTransaction",
                          SendParams(dappPublicKey, nonce, MakeRedirectUrl(u),
                                     encryptedPayload))>>)

\* the error a failed delegate call raises: one of the adapter's typed
\* errors, or a foreign one
DelegateError(outcome) ==
    IF outcome = "typed" THEN Err("WalletError", "delegate") ELSE ForeignError

\* the else branch of sendTransaction: the error it throws, or NoError
SendTransactionDirect(transaction, fails, outcome) ==
    IF ~wallet THEN Err("WalletNotConnectedError", "none")
    ELSE IF SignAndPrepareTransaction(transaction, fails) # NoError
    THEN SignAndPrepareTransaction(transaction, fails)
    ELSE IF outcome = "ok" THEN NoError
    ELSE IF IsWalletError(DelegateError(outcome)) THEN DelegateError(outcome)
    ELSE Wrap("WalletSendTransactionError", DelegateError(outcome))

\* sendTransaction(transaction, connection, options).  The promise of
\* sendTransactionUsingDeepLink is returned without an await, so its
\* rejection passes by the catch block of sendTransaction.
SendTransaction(transaction, fails, outcome, nonce) ==
    /\ IF readyState = "Loadable"
       THEN LET o == SendTransactionUsingDeepLink(storage, url, transaction,
                                                  fails, nonce)
            IN  last' = IF o.thrown # NoError
                        THEN Rejected("sendTransaction", o.emitted, o.thrown)
                        ELSE Step("sendTransaction", o.emitted, "resolved",
                                  NoError, "TransactionSignature", o.href)
       ELSE LET thrown == SendTransactionDirect(transaction, fails, outcome)
            IN  last' = IF thrown # NoError
                        THEN Rejected("sendTransaction",
                                      <<ErrorEvent(thrown)>>, thrown)
                        ELSE Step("sendTransaction", <<>>, "resolved",
                                  NoError, "signature", <<>>)
    /\ UNCHANGED <<host, useDeepLink, url, storage, readyState, connecting,
                   wallet, publicKey, extension, pendingConnect,
                   pendingDisconnect, keyPairs, authenticated>>

\* the body shared by signTransaction, signAllTransactions and signMessage:
\* the error thrown, or NoError
Sign(errorType, outcome) ==
    IF ~wallet THEN Err("WalletNotConnectedError", "none")
    ELSE IF outcome = "ok" THEN NoError
    ELSE Wrap(errorType, DelegateError(outcome))

\* the catch block of the three sign operations
SettleSign(op, thrown) ==
    /\ last' = IF thrown # NoError
               THEN Rejected(op, <<ErrorEvent(thrown)>>, thrown)
               ELSE Step(op, <<>>, "resolved", NoError, "signed", <<>>)
    /\ UNCHANGED <<host, useDeepLink, url, storage, readyState, connecting,
                   wallet, publicKey, extension, pendingConnect,
                   pendingDisconnect, keyPairs, authenticated>>

SignTransaction(outcome) ==
    SettleSign("signTransaction", Sign("WalletSignTransactionError", outcome))

SignAllTransactions(outcome) ==
    SettleSign("signAllTransactions",
               Sign("WalletSignTransactionError", outcome))

SignMessage(outcome) ==
    SettleSign("signMessage", Sign("WalletSignMessageError", outcome))

DelegateOutcomes == {"ok", "typed", "foreign"}

Next ==
    \/ \E u \in InboundUrls : PageLoad(u)
    \/ DetectInstalled
    \/ Connect
    \/ \E approved \in BOOLEAN, key \in {<<>>} \cup {<<k>> : k \in KeyValues} :
           ConnectResume(approved, key)
    \/ Disconnect
    \/ \E done \in BOOLEAN : DisconnectResume(done)
    \/ ExtensionDisconnect
    \/ \E k \in KeyValues : ExtensionAccountChanged(k)
    \/ \E transaction \in {"legacy", "versioned"}, fails \in BOOLEAN,
          outcome \in DelegateOutcomes, nonce \in Nonces :
           SendTransaction(transaction, fails, outcome, nonce)
    \/ \E outcome \in DelegateOutcomes : SignTransaction(outcome)
    \/ \E outcome \in DelegateOutcomes : SignAllTransactions(outcome)
    \/ \E outcome \in DelegateOutcomes : SignMessage(outcome)

Spec == Init /\ [][Next]_vars

(***************************************************************************)
(* Properties.                                                             *)
(***************************************************************************)
\* the step just taken emitted event e
Emitted(e) == \E i \in 1..Len(last.emitted) : last.emitted[i] = e

\* the step just taken emitted an event of this name
EmittedNamed(name) == \E i \in 1..Len(last.emitted) : last.emitted[i].name = name

PublicOps ==
    {"connect", "connect.resume", "sendTransaction", "signTransaction",
     "signAllTransactions", "signMessage"}

SignAndSendOps ==
    {"sendTransaction", "signTransaction", "signAllTransactions", "signMessage"}

C2_NotReadyWhenUnsupportedOrNotDetected ==
    (last.op = "connect" /\ readyState \notin {"Installed", "Loadable"})
      => /\ last.result = "rejected"
         /\ last.error = Err("WalletNotReadyError", "none")
         /\ last.emitted = <<ErrorEvent(last.error)>>
         /\ publicKey = <<>>

\* C3: once disconnect() has completed, identity is absent, whichever
\* strategy established it.
C3_DisconnectClearsIdentity ==
    (last.op \in {"disconnect", "disconnect.resume"} /\ last.result = "resolved")
      => publicKey = <<>>

\* C4: signTransaction, signAllTransactions, signMessage and sendTransaction
\* called while identity is absent reject with a NotConnected error, without
\* a delegate result and without navigating, in every readiness state.
C4_NotConnectedWithoutIdentity ==
    (last.op \in SignAndSendOps /\ publicKey = <<>>)
      => /\ last.result = "rejected"
         /\ last.error = Err("WalletNotConnectedError", "none")
         /\ last.href = <<>>

\* C5: every rejection of a public asynchronous operation is preceded by an
\* error event carrying the error it rejects with.
C5_RejectionIsEmittedFirst ==
    (last.op \in PublicOps /\ last.result = "rejected")
      => /\ last.emitted # <<>>
         /\ last.emitted[Len(last.emitted)] = ErrorEvent(last.error)

\* C6: connect() on a page whose URL carries errorCode/errorMessage and no
\* success parameters reports a failure, persists no new key pair, does not
\* navigate and establishes no identity.
C6_ErrorResponseIsAFailure ==
    [][(last'.op = "connect" /\ readyState = "Loadable"
        /\ url.errorCode # <<>> /\ url.errorMessage # <<>>
        /\ ~HasResponseParams(url))
         => /\ last'.result = "rejected"
            /\ last'.href = <<>>
            /\ storage' = storage
            /\ publicKey' = <<>>]_vars

\* the response in URL u reaches the authenticated decryption, run with the
\* request secret key in store, and the decryption fails
DecryptionFails(store, u) ==
    /\ HasResponseParams(u)
    /\ ~NotStored(store.secretKey)
    /\ ~Bs58DecodeThrows(u.phantom_encryption_public_key[1])
    /\ ~BoxBeforeThrows(Bs58Decode(u.phantom_encryption_public_key[1]),
                        LocalStorageGetUint8(store.secretKey))
    /\ ~Bs58DecodeThrows(u.data[1])
    /\ ~Bs58DecodeThrows(u.nonce[1])
    /\ ~BoxOpenAfterThrows(Bs58Decode(u.nonce[1]))
    /\ BoxOpenAfter(Bs58Decode(u.data[1]), Bs58Decode(u.nonce[1]),
                    BoxBefore(Bs58Decode(u.phantom_encryption_public_key[1]),
                              LocalStorageGetUint8(store.secretKey))) = <<>>

\* C7: a completion phase whose data fails authenticated decryption emits a
\* Connection error, rejects with it, leaves identity absent, emits no
\* connect event and writes no session token.
C7_DecryptionFailureAborts ==
    [][(last'.op = "connect" /\ readyState = "Loadable"
        /\ DecryptionFails(storage, url))
         => /\ last'.result = "rejected"
            /\ last'.error = Err("WalletConnectionError", "none")
            /\ \E i \in 1..Len(last'.emitted) :
                   last'.emitted[i] = ErrorEvent(last'.error)
            /\ \A i \in 1..Len(last'.emitted) :
                   last'.emitted[i].name # "connect"
            /\ publicKey' = <<>>
            /\ storage'.session = storage.session]_vars

\* C7 witness: connect() has just run on a response with one byte of data
\* flipped, against a stored request key, and failed with a Connection error
C7_Witness ==
    /\ last.op = "connect"
    /\ readyState = "Loadable"
    /\ DecryptionFails(storage, url)
    /\ ~Bs58Decode(url.data[1]).intact
    /\ last.error = Err("WalletConnectionError", "none")

\* C8: a shared secret in storage has opened a response payload.
C8_StoredSharedSecretIsAuthenticated ==
    ~NotStored(storage.sharedSecret)
      => LocalStorageGetUint8(storage.sharedSecret) \in authenticated

\* C9: a completion phase with no request secret key in storage rejects,
\* writes no shared secret and no session token, leaves identity absent and
\* emits no connect event.
C9_CompletionNeedsAPersistedRequest ==
    [][(last'.op = "connect" /\ readyState = "Loadable"
        /\ HasResponseParams(url) /\ NotStored(storage.secretKey))
         => /\ last'.result = "rejected"
            /\ last'.error # NoError
            /\ storage'.sharedSecret = storage.sharedSecret
            /\ storage'.session = storage.session
            /\ publicKey' = <<>>
            /\ \A i \in 1..Len(last'.emitted) :
                   last'.emitted[i].name # "connect"]_vars

\* C9 witness: connect() has just run on a sound response with no request
\* secret key stored, and was rejected
C9_Witness ==
    /\ last.op = "connect"
    /\ last.result = "rejected"
    /\ readyState = "Loadable"
    /\ HasResponseParams(url)
    /\ Bs58Decode(url.data[1]).intact
    /\ NotStored(storage.secretKey)

\* the response in URL u is the wallet app's sound answer to the request
\* whose secret key is in store: data is payload {public_key: addr,
\* session: tok} sealed, under the nonce sent, with the secret the wallet app
\* agrees on from its own secret key and the request's public key
SoundResponse(store, u, addr, tok) ==
    /\ HasResponseParams(u)
    /\ ~NotStored(store.secretKey)
    /\ u.phantom_encryption_public_key[1] = Bs58Encode(WalletKeyPair.publicKey)
    /\ \E n \in Nonces :
          /\ u.nonce[1] = Bs58Encode(n)
          /\ u.data[1] =
               Bs58Encode(BoxAfter(ConnectData(addr, tok), n,
                   BoxBefore(KeyPairOf(Uint8FromString(store.secretKey[1])).publicKey,
                             WalletKeyPair.secretKey)))

\* C10: a completion phase on the sound response to the stored request
\* establishes identity addr, persists session token tok and emits
\* connect(addr).
C10_CompletionEstablishesIdentity ==
    [][\A addr \in Addresses, tok \in {Tok1, Tok2} :
         (last'.op = "connect" /\ readyState = "Loadable"
          /\ SoundResponse(storage, url, addr, tok))
           => /\ last'.result = "resolved"
              /\ publicKey' = <<addr>>
              /\ storage'.session = <<tok>>
              /\ last'.emitted = <<ConnectEvent(addr)>>]_vars

\* C10 witness: connect() has just completed the handshake for addrB/tok2
C10_Witness ==
    /\ last.op = "connect"
    /\ readyState = "Loadable"
    /\ SoundResponse(storage, url, "addrB", Tok2)
    /\ publicKey = <<"addrB">>
    /\ storage.session = <<Tok2>>
    /\ Emitted(ConnectEvent("addrB"))

\* C11: disconnect() never rejects and ends by emitting disconnect; called
\* with identity absent it emits disconnect and nothing else; when the
\* extension's disconnect call fails it emits an error event carrying a
\* Disconnection error, then disconnect, and completes.
C11_DisconnectAlwaysCompletes ==
    [][/\ last'.op \in {"disconnect", "disconnect.resume"}
          => /\ last'.result # "rejected"
             /\ last'.result = "resolved"
                  => /\ last'.emitted # <<>>
                     /\ last'.emitted[Len(last'.emitted)] = DisconnectEvent
       /\ (last'.op = "disconnect" /\ publicKey = <<>>)
          => /\ last'.result = "resolved"
             /\ last'.emitted = <<DisconnectEvent>>
       /\ DisconnectResume(FALSE)
          => /\ last'.result = "resolved"
             /\ last'.emitted =
                  <<ErrorEvent(Wrap("WalletDisconnectionError", ForeignError)),
                    DisconnectEvent>>]_vars

\* C11 witness: a disconnect() whose extension call failed has just
\* completed, after the error event and the disconnect event
C11_Witness ==
    /\ last.op = "disconnect.resume"
    /\ last.result = "resolved"
    /\ last.emitted = <<ErrorEvent(Wrap("WalletDisconnectionError", ForeignError)),
                        DisconnectEvent>>

\* C12: a connect() that has established identity leaves the adapter
\* connected, and a connect() called with identity present is a no-op: it
\* emits nothing (no second connect event), generates and stores no key
\* pair, does not navigate and leaves the adapter as it was.
C12_ConnectAfterIdentityIsANoOp ==
    [][/\ (last'.op \in {"connect", "connect.resume"}
           /\ last'.result = "resolved" /\ publicKey = <<>>
           /\ publicKey' # <<>>)
          => Connected'
       /\ (last'.op = "connect" /\ publicKey # <<>>)
          => /\ last'.result = "resolved"
             /\ last'.emitted = <<>>
             /\ last'.href = <<>>
             /\ UNCHANGED <<storage, keyPairs, publicKey, wallet,
                            extension>>]_vars

\* the values sendTransaction hands back as a TransactionSignature: the
\* extension's signature, and the string literal of the deep-link dispatch
SignatureShaped == {"signature", "TransactionSignature"}

\* C13: a sendTransaction that resolves in Loadable readiness, having
\* dispatched the transaction over the deep link, does not resolve with a
\* value shaped like a transaction signature.
C13_DispatchYieldsNoSignature ==
    (last.op = "sendTransaction" /\ readyState = "Loadable"
     /\ last.result = "resolved")
      => last.value \notin SignatureShaped

\* C14: an account-change notification carrying public key k leaves identity
\* as it is and emits nothing when k is the current identity; makes k the
\* identity and emits connect(k) when identity is present and differs; and
\* changes and emits nothing when identity is absent.
C14_AccountChangeFollowsTheNewKey ==
    [][\A k \in Addresses :
         (last'.op \in {"_accountChanged", "extension"}
          /\ extension.isConnected /\ extension'.publicKey = <<k>>)
           => /\ publicKey = <<>>
                 => /\ last'.emitted = <<>>
                    /\ UNCHANGED <<publicKey, wallet, connecting, storage,
                                   readyState>>
              /\ (last'.op = "_accountChanged" /\ publicKey = <<k>>)
                 => /\ last'.emitted = <<>>
                    /\ UNCHANGED publicKey
              /\ (last'.op = "_accountChanged" /\ publicKey # <<>>
                  /\ publicKey # <<k>>)
                 => /\ last'.emitted = <<ConnectEvent(k)>>
                    /\ publicKey' = <<k>>]_vars

\* C14 witness: the handler has just replaced identity by the new key addrB
\* and emitted connect(addrB)
C14_Witness ==
    /\ last.op = "_accountChanged"
    /\ last.emitted = <<ConnectEvent("addrB")>>
    /\ publicKey = <<"addrB">>
    /\ extension.publicKey = <<"addrB">>

\* C14 witness of the other case: the handler has just heard the key that is
\* the identity already, and emitted nothing
C14_SameKeyReached ==
    /\ last.op = "_accountChanged"
    /\ last.emitted = <<>>
    /\ publicKey = <<"addrA">>
    /\ extension.publicKey = <<"addrA">>

C16_RequestIsPersistedBeforeNavigating ==
    [][(last'.op = "connect" /\ readyState = "Loadable"
        /\ ~HasResponseParams(url) /\ last'.href # <<>>)
         => /\ ~NotStored(storage'.publicKey)
            /\ ~NotStored(storage'.secretKey)
            /\ keyPairs' = keyPairs + 1
            /\ LocalStorageGetUint8(storage'.secretKey) = SecretKeyOf(keyPairs')
            /\ LocalStorageGetUint8(storage'.publicKey)
                 = KeyPairOf(LocalStorageGetUint8(storage'.secretKey)).publicKey
            /\ last'.href[1].path = "connect"
            /\ ~Bs58DecodeThrows(last'.href[1].params.dapp_encryption_public_key)
            /\ Bs58Decode(last'.href[1].params.dapp_encryption_public_key)
                 = LocalStorageGetUint8(storage'.publicKey)]_vars

\* C16 witness: the second request phase of a run has just navigated, with
\* its own key pair in storage in place of the first one
C16_Witness ==
    /\ last.op = "connect"
    /\ last.href # <<>>
    /\ last.href[1].path = "connect"
    /\ keyPairs = 2
    /\ storage.secretKey = <<Uint8ToString(SecretKeyOf(2))>>
    /\ Bs58Decode(last.href[1].params.dapp_encryption_public_key)
         = KeyPairOf(SecretKeyOf(2)).publicKey

C18_StorageHoldsOneRequest ==
    /\ ~NotStored(storage.sharedSecret)
         => /\ ~NotStored(storage.secretKey)
            /\ LocalStorageGetUint8(storage.sharedSecret)
                 = BoxBefore(WalletKeyPair.publicKey,
                             LocalStorageGetUint8(storage.secretKey))
    /\ ~NotStored(storage.session) => ~NotStored(storage.sharedSecret)

\* C19: a sendTransaction in Loadable readiness made while the request
\* public key, the shared secret or the session token is missing from
\* storage rejects with an error and does not navigate.
C19_DispatchNeedsTheWholeSession ==
    (last.op = "sendTransaction" /\ readyState = "Loadable"
     /\ (\/ NotStored(storage.publicKey)
         \/ NotStored(storage.sharedSecret)
         \/ NotStored(storage.session)))
      => /\ last.result = "rejected"
         /\ last.error # NoError
         /\ last.href = <<>>

\* how many events of this name the sequence of events holds
CountNamed(events, name) ==
    Cardinality({i \in 1..Len(events) : events[i].name = name})

NotHostCapable == host.window # "object" \/ ~host.document

\* what holds of readiness in every state: Unsupported exactly where the
\* host is not capable, and a constructor that has left another value than
\* NotDetected has emitted readyStateChange with that value, and nothing
\* else
ReadinessAtConstruction ==
    /\ NotHostCapable <=> readyState = "Unsupported"
    /\ last.op = "constructor"
         => /\ readyState \in {"Unsupported", "NotDetected", "Loadable"}
            /\ last.emitted = IF readyState \in {"Unsupported", "NotDetected"}
                              THEN <<>>
                              ELSE <<ReadyStateChangeEvent(readyState)>>

\* C21: readiness is Unsupported where the host is not capable; elsewhere
\* it leaves NotDetected at most once, in the constructor or at detection,
\* for its final value, and that step emits readyStateChange with the
\* value; no step of connect, disconnect, the sign and send operations or
\* the extension's notifications changes it.
C21_ReadinessIsSetOnce ==
    /\ []ReadinessAtConstruction
    /\ [][/\ (last'.op # "constructor" /\ readyState' # readyState)
             => /\ readyState = "NotDetected"
                /\ readyState' \in {"Installed", "Loadable"}
                /\ last'.op = "detect"
                /\ last'.emitted = <<ReadyStateChangeEvent(readyState')>>
          /\ last'.op \notin {"constructor", "detect"}
             => UNCHANGED readyState]_vars

\* C21 witness: after detection made readiness Installed, a session was
\* held and the extension's disconnect notification has just been handled,
\* with readiness still Installed
C21_Witness ==
    /\ last.op = "_disconnected"
    /\ last.emitted # <<>>
    /\ readyState = "Installed"
====
